---- MODULE Spec2Model ----
(***************************************************************************)
(* Rates_update.py: one batch run of pull_and_save_data_to_csv.  The run   *)
(* reads the previous Reference_Rates_Coverage.csv, fetches the exchange   *)
(* name mappings and the instrument list, normalises and enriches every    *)
(* USD record, overlays the fixed catalog, filters Coinbase rows and       *)
(* writes the two CSV files.                                               *)
(* Spec follows one run step by step; SpecRuns follows successive runs in  *)
(* one working directory, each run being one step.                         *)
(*                                                                         *)
(* Representation of Python values:                                        *)
(*  - a row is the 12-tuple of the source (item[k] is row[k+1]);           *)
(*  - strings a string operation is applied to are sequences of atomic     *)
(*    pieces: base/quote codes are sequences of characters (upper()),      *)
(*    factsheet cells are sequences over HREF, COMMA, SPACE and opaque     *)
(*    chunks (strip, endswith, replace), exchanges descriptors are         *)
(*    sequences of names and separators (join, in), short names are        *)
(*    sequences of words and "_" (replace);                                *)
(*  - strings that are only compared or copied are TLA+ strings;           *)
(*  - a dict is a function whose DOMAIN is its key set.                    *)
(***************************************************************************)
EXTENDS Integers, Sequences, FiniteSets, TLC

VARIABLES
  pc,                    \* position of the run inside the script
  priorCsv,              \* Reference_Rates_Coverage.csv as found at start
  api_key,               \* KAIKO_API_KEY / API_KEY from the environment
  existing_fact_sheets,  \* dict ticker -> link, from get_existing_fact_sheets
  exchange_mappings,     \* dict code -> name, from get_exchange_name_mappings
  response,              \* the instrument source's answer (status, data)
  usd_items,             \* the records that pass the quote filter
  idx,                   \* 1-based position of the per-record loop
  api_items,             \* rows built so far by the per-record loop
  enrichment,            \* per processed record: what fetch_historical_prices_data saw
  mainCsv,               \* Reference_Rates_Coverage.csv as written by this run
  factCsv,               \* Reference_Rates_With_Factsheets.csv as written by this run
  recorded               \* over successive runs: the link first written for an API ticker

vars == <<pc, priorCsv, api_key, existing_fact_sheets, exchange_mappings, response,
          usd_items, idx, api_items, enrichment, mainCsv, factCsv, recorded>>

----------------------------------------------------------------------------
\* Bounds of the explored inputs.
MaxRecords == 2      \* records in the instrument source's data array

----------------------------------------------------------------------------
\* Python string operations on sequences of pieces.

HREF == "<a href=\""
COMMA == ","
SPACE == " "
DASH == <<"-">>
EXCLUDE == <<"EXCLUDE">>

\* s.endswith(piece)
EndsWith(s, piece) == Len(s) > 0 /\ s[Len(s)] = piece

\* s[:-1]
DropLast(s) == SubSeq(s, 1, Len(s) - 1)

\* s.strip(): leading and trailing whitespace removed
RECURSIVE LStrip(_)
LStrip(s) == IF Len(s) > 0 /\ Head(s) = SPACE THEN LStrip(Tail(s)) ELSE s
RECURSIVE RStrip(_)
RStrip(s) == IF EndsWith(s, SPACE) THEN RStrip(DropLast(s)) ELSE s
Strip(s) == RStrip(LStrip(s))

\* pat in s
Contains(s, pat) ==
  \E i \in 1..(Len(s) - Len(pat) + 1) : SubSeq(s, i, i + Len(pat) - 1) = pat

\* s.replace(old, new): non-overlapping occurrences, scanned left to right
RECURSIVE Replace(_, _, _)
Replace(s, old, new) ==
  IF Len(s) < Len(old) THEN s
  ELSE IF SubSeq(s, 1, Len(old)) = old
       THEN new \o Replace(SubSeq(s, Len(old) + 1, Len(s)), old, new)
       ELSE <<Head(s)>> \o Replace(Tail(s), old, new)

\* sep.join(parts), parts being single pieces
RECURSIVE Join(_, _)
Join(sep, parts) ==
  IF Len(parts) = 0 THEN <<>>
  ELSE IF Len(parts) = 1 THEN <<parts[1]>>
  ELSE <<parts[1], sep>> \o Join(sep, Tail(parts))

\* c.upper() for one character
UpperChar(c) ==
  LET lower == <<"a","b","c","d","e","f","g","h","i","j","k","l","m",
                 "n","o","p","q","r","s","t","u","v","w","x","y","z">>
      upper == <<"A","B","C","D","E","F","G","H","I","J","K","L","M",
                 "N","O","P","Q","R","S","T","U","V","W","X","Y","Z">>
  IN IF \E i \in 1..26 : lower[i] = c
     THEN upper[CHOOSE i \in 1..26 : lower[i] = c]
     ELSE c

\* s.upper()
Upper(s) == [i \in 1..Len(s) |-> UpperChar(s[i])]

\* dict.get(key, default)
Get(dict, key, default) == IF key \in DOMAIN dict THEN dict[key] ELSE default

\* dict[key] = value
Put(dict, key, value) ==
  [k \in (DOMAIN dict) \cup {key} |-> IF k = key THEN value ELSE dict[k]]

EmptyDict == [k \in {} |-> <<>>]

\* The fixed entries.  A factsheet link is its opening tag followed by one
\* opaque chunk; the chunk is written as the document's path below
\* https://marketing.kaiko.com/hubfs/[Factsheets and Methodologies/], the URL
\* prefix and the closing markup (" target="_blank">View Factsheet</a>), the
\* same in every entry, being left out.  No operation of the script looks
\* inside the chunk.
factsheet_blue_chip ==
  <<HREF, "New Benchmark Factsheets/Kaiko Benchmarks - Blue-Chip family factsheet.pdf">>
factsheet_sector_thematic ==
  <<HREF, "New Benchmark Factsheets/Kaiko Benchmarks - Sector & Thematic family factsheet.pdf">>
factsheet_market ==
  <<HREF, "New Benchmark Factsheets/Kaiko Benchmarks - Market family factsheet.pdf">>
get_fixed_entries ==
  <<
    <<"Kaiko", "Blue-Chip", <<"Kaiko Eagle Index">>, "EGLX", <<"N", "/", "A">>, <<"N", "/", "A">>, "NYC Fixing", <<"February", "11", "2025">>, <<"February", "11", "2025">>, <<"-">>, <<"-">>, factsheet_blue_chip>>,
    <<"Kaiko", "Blue-Chip", <<"Kaiko Eagle Index">>, "EGLXRT", <<"N", "/", "A">>, <<"N", "/", "A">>, "Real-time (5 sec)", <<"February", "11", "2025">>, <<"February", "11", "2025">>, <<"-">>, <<"-">>, factsheet_blue_chip>>,
    <<"Kaiko", "Blue-Chip", <<"Kaiko 5 Index">>, "KT5", <<"N", "/", "A">>, <<"N", "/", "A">>, "Real-time (5 sec)", <<"October", "17", "2023">>, <<"March", "19", "2018">>, <<"-">>, <<"-">>, factsheet_blue_chip>>,
    <<"Kaiko", "Blue-Chip", <<"Kaiko 5 Index NYC">>, "KT5NYC", <<"N", "/", "A">>, <<"N", "/", "A">>, "NYC Fixing", <<"October", "17", "2023">>, <<"March", "19", "2018">>, <<"-">>, <<"-">>, factsheet_blue_chip>>,
    <<"Kaiko", "Blue-Chip", <<"Kaiko 5 Index LDN">>, "KT5LDN", <<"N", "/", "A">>, <<"N", "/", "A">>, "LDN Fixing", <<"October", "17", "2023">>, <<"March", "19", "2018">>, <<"-">>, <<"-">>, factsheet_blue_chip>>,
    <<"Kaiko", "Blue-Chip", <<"Kaiko 5 Index SGP">>, "KT5SGP", <<"N", "/", "A">>, <<"N", "/", "A">>, "SGP Fixing", <<"October", "17", "2023">>, <<"March", "19", "2018">>, <<"-">>, <<"-">>, factsheet_blue_chip>>,
    <<"Kaiko", "Blue-Chip", <<"Kaiko 10 Index">>, "KT10", <<"N", "/", "A">>, <<"N", "/", "A">>, "Real-time (5 sec)", <<"October", "17", "2023">>, <<"March", "18", "2019">>, <<"-">>, <<"-">>, factsheet_blue_chip>>,
    <<"Kaiko", "Blue-Chip", <<"Kaiko 10 Index NYC">>, "KT10NYC", <<"N", "/", "A">>, <<"N", "/", "A">>, "NYC Fixing", <<"October", "17", "2023">>, <<"March", "18", "2019">>, <<"-">>, <<"-">>, factsheet_blue_chip>>,
    <<"Kaiko", "Blue-Chip", <<"Kaiko 10 Index LDN">>, "KT10LDN", <<"N", "/", "A">>, <<"N", "/", "A">>, "LDN Fixing", <<"October", "17", "2023">>, <<"March", "18", "2019">>, <<"-">>, <<"-">>, factsheet_blue_chip>>,
    <<"Kaiko", "Blue-Chip", <<"Kaiko 10 Index SGP">>, "KT10SGP", <<"N", "/", "A">>, <<"N", "/", "A">>, "SGP Fixing", <<"October", "17", "2023">>, <<"March", "18", "2019">>, <<"-">>, <<"-">>, factsheet_blue_chip>>,
    <<"Kaiko", "Blue-Chip", <<"Kaiko 15 Index">>, "KT15", <<"N", "/", "A">>, <<"N", "/", "A">>, "Real-time (5 sec)", <<"October", "17", "2023">>, <<"December", "23", "2019">>, <<"-">>, <<"-">>, factsheet_blue_chip>>,
    <<"Kaiko", "Blue-Chip", <<"Kaiko 15 Index NYC">>, "KT15NYC", <<"N", "/", "A">>, <<"N", "/", "A">>, "NYC Fixing", <<"October", "17", "2023">>, <<"December", "23", "2019">>, <<"-">>, <<"-">>, factsheet_blue_chip>>,
    <<"Kaiko", "Blue-Chip", <<"Kaiko 15 Index LDN">>, "KT15LDN", <<"N", "/", "A">>, <<"N", "/", "A">>, "LDN Fixing", <<"October", "17", "2023">>, <<"December", "23", "2019">>, <<"-">>, <<"-">>, factsheet_blue_chip>>,
    <<"Kaiko", "Blue-Chip", <<"Kaiko 15 Index SGP">>, "KT15SGP", <<"N", "/", "A">>, <<"N", "/", "A">>, "SGP Fixing", <<"October", "17", "2023">>, <<"December", "23", "2019">>, <<"-">>, <<"-">>, factsheet_blue_chip>>,
    <<"Kaiko", "Blue-Chip", <<"Vinter 21Shares Crypto Basket Equal Weight Index ">>, "HODLV", <<"N", "/", "A">>, <<"N", "/", "A">>, "LDN Fixing", <<"September", "29", "2021">>, <<"January", "01", "2021">>, <<"-">>, <<"-">>, <<HREF, "multi-asset_hodlv_end=2025-03-12&start=2020-12-31.pdf">>>>,
    <<"Kaiko", "Blue-Chip", <<"Vinter 21Shares Crypto Basket 10 Index">>, "HODLX", <<"N", "/", "A">>, <<"N", "/", "A">>, "LDN Fixing", <<"September", "29", "2021">>, <<"January", "01", "2021">>, <<"-">>, <<"-">>, <<"<a target=\"_blank\">Coming Soon</a>">>>>,
    <<"Kaiko", "Blue-Chip", <<"Vinter Valour Digital Asset Basket 10 Index">>, "VDAB10", <<"N", "/", "A">>, <<"N", "/", "A">>, "LDN Fixing", <<"July", "21", "2022">>, <<"January", "01", "2021">>, <<"-">>, <<"-">>, <<HREF, "VDAB10 - Fact Sheet - multi-asset_vdab10_end=2025-03-12&start=2020-12-31.pdf">>>>,
    <<"Kaiko", "Blue-Chip", <<"Vinter Pando Crypto Basket 6 Index ">>, "PANDO6", <<"N", "/", "A">>, <<"N", "/", "A">>, "17:00 CET Fixing", <<"July", "21", "2022">>, <<"January", "01", "2021">>, <<"-">>, <<"-">>, <<HREF, "PANDO6 - Fact Sheet - multi-asset_pando6_end=2025-03-12&start=2020-12-31.pdf">>>>,
    <<"Kaiko", "Blue-Chip", <<"Virtune Vinter Crypto Top 10 Index">>, "VVT10", <<"N", "/", "A">>, <<"N", "/", "A">>, "17:00 CET Fixing", <<"March", "31", "2023">>, <<"January", "01", "2021">>, <<"-">>, <<"-">>, <<HREF, "VVT10 - Fact Sheet - multi-asset_vvt10_end=2025-03-12&start=2020-12-31.pdf">>>>,
    <<"Kaiko", "Sector & Thematic", <<"Kaiko Tokenization Index">>, "KSTKNZ", <<"N", "/", "A">>, <<"N", "/", "A">>, "Real-time (5 sec)", <<"January", "23", "2025">>, <<"January", "3", "2022">>, <<"-">>, <<"-">>, factsheet_sector_thematic>>,
    <<"Kaiko", "Sector & Thematic", <<"Kaiko Tokenization Index NYC">>, "KSTKNZNYC", <<"N", "/", "A">>, <<"N", "/", "A">>, "NYC Fixing", <<"January", "23", "2025">>, <<"January", "3", "2022">>, <<"-">>, <<"-">>, factsheet_sector_thematic>>,
    <<"Kaiko", "Sector & Thematic", <<"Kaiko Tokenization Index LDN">>, "KSTKNZLDN", <<"N", "/", "A">>, <<"N", "/", "A">>, "LDN Fixing", <<"January", "23", "2025">>, <<"January", "3", "2022">>, <<"-">>, <<"-">>, factsheet_sector_thematic>>,
    <<"Kaiko", "Sector & Thematic", <<"Kaiko Tokenization Index SGP">>, "KSTKNZSGP", <<"N", "/", "A">>, <<"N", "/", "A">>, "SGP Fixing", <<"January", "23", "2025">>, <<"January", "3", "2022">>, <<"-">>, <<"-">>, factsheet_sector_thematic>>,
    <<"Kaiko", "Sector & Thematic", <<"Kaiko AI Index">>, "KSAI", <<"N", "/", "A">>, <<"N", "/", "A">>, "Real-time (5 sec)", <<"January", "23", "2025">>, <<"October", "3", "2022">>, <<"-">>, <<"-">>, factsheet_sector_thematic>>,
    <<"Kaiko", "Sector & Thematic", <<"Kaiko AI Index NYC">>, "KSAINYC", <<"N", "/", "A">>, <<"N", "/", "A">>, "NYC Fixing", <<"January", "23", "2025">>, <<"October", "3", "2022">>, <<"-">>, <<"-">>, factsheet_sector_thematic>>,
    <<"Kaiko", "Sector & Thematic", <<"Kaiko AI Index LDN">>, "KSAILDN", <<"N", "/", "A">>, <<"N", "/", "A">>, "LDN Fixing", <<"January", "23", "2025">>, <<"October", "3", "2022">>, <<"-">>, <<"-">>, factsheet_sector_thematic>>,
    <<"Kaiko", "Sector & Thematic", <<"Kaiko AI Index SGP">>, "KSAISGP", <<"N", "/", "A">>, <<"N", "/", "A">>, "SGP Fixing", <<"January", "23", "2025">>, <<"October", "3", "2022">>, <<"-">>, <<"-">>, factsheet_sector_thematic>>,
    <<"Kaiko", "Sector & Thematic", <<"Kaiko Meme Index">>, "KSMEME", <<"N", "/", "A">>, <<"N", "/", "A">>, "Real-time (5 sec)", <<"January", "22", "2025">>, <<"April", "3", "2023">>, <<"-">>, <<"-">>, factsheet_sector_thematic>>,
    <<"Kaiko", "Sector & Thematic", <<"Kaiko Meme Index NYC">>, "KSMEMENYC", <<"N", "/", "A">>, <<"N", "/", "A">>, "NYC Fixing", <<"January", "22", "2025">>, <<"April", "3", "2023">>, <<"-">>, <<"-">>, factsheet_sector_thematic>>,
    <<"Kaiko", "Sector & Thematic", <<"Kaiko Meme Index LDN">>, "KSMEMELDN", <<"N", "/", "A">>, <<"N", "/", "A">>, "LDN Fixing", <<"January", "22", "2025">>, <<"April", "3", "2023">>, <<"-">>, <<"-">>, factsheet_sector_thematic>>,
    <<"Kaiko", "Sector & Thematic", <<"Kaiko Meme Index SGP">>, "KSMEMESGP", <<"N", "/", "A">>, <<"N", "/", "A">>, "SGP Fixing", <<"January", "22", "2025">>, <<"April", "3", "2023">>, <<"-">>, <<"-">>, factsheet_sector_thematic>>,
    <<"Kaiko", "Sector & Thematic", <<"Kaiko DeFi Index">>, "KSDEFI", <<"N", "/", "A">>, <<"N", "/", "A">>, "Real-time (5 sec)", <<"January", "17", "2025">>, <<"April", "3", "2023">>, <<"-">>, <<"-">>, factsheet_sector_thematic>>,
    <<"Kaiko", "Sector & Thematic", <<"Kaiko DeFi Index NYC">>, "KSDEFINYC", <<"N", "/", "A">>, <<"N", "/", "A">>, "NYC Fixing", <<"January", "17", "2025">>, <<"April", "3", "2023">>, <<"-">>, <<"-">>, factsheet_sector_thematic>>,
    <<"Kaiko", "Sector & Thematic", <<"Kaiko DeFi Index LDN">>, "KSDEFILDN", <<"N", "/", "A">>, <<"N", "/", "A">>, "LDN Fixing", <<"January", "17", "2025">>, <<"April", "3", "2023">>, <<"-">>, <<"-">>, factsheet_sector_thematic>>,
    <<"Kaiko", "Sector & Thematic", <<"Kaiko DeFi Index SGP">>, "KSDEFISGP", <<"N", "/", "A">>, <<"N", "/", "A">>, "SGP Fixing", <<"January", "17", "2025">>, <<"April", "3", "2023">>, <<"-">>, <<"-">>, factsheet_sector_thematic>>,
    <<"Kaiko", "Sector & Thematic", <<"Kaiko L2 Index">>, "KSL2", <<"N", "/", "A">>, <<"N", "/", "A">>, "Real-time (5 sec)", <<"July", "2", "2024">>, <<"April", "3", "2023">>, <<"-">>, <<"-">>, factsheet_sector_thematic>>,
    <<"Kaiko", "Sector & Thematic", <<"Kaiko L2 Index NYC">>, "KSL2NYC", <<"N", "/", "A">>, <<"N", "/", "A">>, "NYC Fixing", <<"July", "2", "2024">>, <<"April", "3", "2023">>, <<"-">>, <<"-">>, factsheet_sector_thematic>>,
    <<"Kaiko", "Sector & Thematic", <<"Kaiko L2 Index LDN">>, "KSL2LDN", <<"N", "/", "A">>, <<"N", "/", "A">>, "LDN Fixing", <<"July", "2", "2024">>, <<"April", "3", "2023">>, <<"-">>, <<"-">>, factsheet_sector_thematic>>,
    <<"Kaiko", "Sector & Thematic", <<"Kaiko L2 Index SGP">>, "KSL2SGP", <<"N", "/", "A">>, <<"N", "/", "A">>, "SGP Fixing", <<"July", "2", "2024">>, <<"April", "3", "2023">>, <<"-">>, <<"-">>, factsheet_sector_thematic>>,
    <<"Kaiko", "Sector & Thematic", <<"Vinter Cardano Yield Index ">>, "CASL", <<"N", "/", "A">>, <<"N", "/", "A">>, "LDN Fixing", <<"November", "10", "2022">>, <<"March", "06", "2024">>, <<"-">>, <<"-">>, <<HREF, "CASL - Fact Sheet - multi-asset_casl_end=2025-03-12&start=2020-12-31.pdf">>>>,
    <<"Kaiko", "Sector & Thematic", <<"Sygnum Platform Winners Index ">>, "MOON", <<"N", "/", "A">>, <<"N", "/", "A">>, "17:00 CET Fixing", <<"July", "21", "2022">>, <<"November", "01", "2019">>, <<"-">>, <<"-">>, <<HREF, "MOON - Fact Sheet - multi-asset_moon_end=2025-03-12&start=2020-12-31.pdf">>>>,
    <<"Kaiko", "Sector & Thematic", <<"Vinter CF Crypto Web3 Index">>, "VCFWB3", <<"N", "/", "A">>, <<"N", "/", "A">>, "LDN Fixing", <<"May", "15", "2023">>, <<"January", "01", "2021">>, <<"-">>, <<"-">>, <<HREF, "VCFWB3 - Fact Sheet -multi-asset_vcfwb3_end=2025-03-12&start=2020-12-31.pdf">>>>,
    <<"Kaiko", "Market", <<"Kaiko Standard Index">>, "KMSTA", <<"N", "/", "A">>, <<"N", "/", "A">>, "Real-time (5 sec)", <<"January", "23", "2025">>, <<"April", "1", "2014">>, <<"-">>, <<"-">>, factsheet_market>>,
    <<"Kaiko", "Market", <<"Kaiko Standard Index NYC">>, "KMSTANYC", <<"N", "/", "A">>, <<"N", "/", "A">>, "NYC Fixing", <<"January", "23", "2025">>, <<"April", "1", "2014">>, <<"-">>, <<"-">>, factsheet_market>>,
    <<"Kaiko", "Market", <<"Kaiko Standard Index LDN">>, "KMSTALDN", <<"N", "/", "A">>, <<"N", "/", "A">>, "LDN Fixing", <<"January", "23", "2025">>, <<"April", "1", "2014">>, <<"-">>, <<"-">>, factsheet_market>>,
    <<"Kaiko", "Market", <<"Kaiko Standard Index SGP">>, "KMSTASGP", <<"N", "/", "A">>, <<"N", "/", "A">>, "SGP Fixing", <<"January", "23", "2025">>, <<"April", "1", "2014">>, <<"-">>, <<"-">>, factsheet_market>>,
    <<"Kaiko", "Market", <<"Kaiko Small Cap Index">>, "KMSMA", <<"N", "/", "A">>, <<"N", "/", "A">>, "Real-time (5 sec)", <<"January", "23", "2025">>, <<"January", "2", "2015">>, <<"-">>, <<"-">>, factsheet_market>>,
    <<"Kaiko", "Market", <<"Kaiko Small Cap Index NYC">>, "KMSMANYC", <<"N", "/", "A">>, <<"N", "/", "A">>, "NYC Fixing", <<"January", "23", "2025">>, <<"January", "2", "2015">>, <<"-">>, <<"-">>, factsheet_market>>,
    <<"Kaiko", "Market", <<"Kaiko Small Cap Index LDN">>, "KMSMALDN", <<"N", "/", "A">>, <<"N", "/", "A">>, "LDN Fixing", <<"January", "23", "2025">>, <<"January", "2", "2015">>, <<"-">>, <<"-">>, factsheet_market>>,
    <<"Kaiko", "Market", <<"Kaiko Small Cap Index SGP">>, "KMSMASGP", <<"N", "/", "A">>, <<"N", "/", "A">>, "SGP Fixing", <<"January", "23", "2025">>, <<"January", "2", "2015">>, <<"-">>, <<"-">>, factsheet_market>>,
    <<"Kaiko", "Market", <<"Kaiko Mid Cap Index">>, "KMMID", <<"N", "/", "A">>, <<"N", "/", "A">>, "Real-time (5 sec)", <<"January", "23", "2025">>, <<"April", "2", "2018">>, <<"-">>, <<"-">>, factsheet_market>>,
    <<"Kaiko", "Market", <<"Kaiko Mid Cap Index NYC">>, "KMMIDNYC", <<"N", "/", "A">>, <<"N", "/", "A">>, "NYC Fixing", <<"January", "23", "2025">>, <<"April", "2", "2018">>, <<"-">>, <<"-">>, factsheet_market>>,
    <<"Kaiko", "Market", <<"Kaiko Mid Cap Index LDN">>, "KMMIDLDN", <<"N", "/", "A">>, <<"N", "/", "A">>, "LDN Fixing", <<"January", "23", "2025">>, <<"April", "2", "2018">>, <<"-">>, <<"-">>, factsheet_market>>,
    <<"Kaiko", "Market", <<"Kaiko Mid Cap Index SGP">>, "KMMIDSGP", <<"N", "/", "A">>, <<"N", "/", "A">>, "SGP Fixing", <<"January", "23", "2025">>, <<"April", "2", "2018">>, <<"-">>, <<"-">>, factsheet_market>>,
    <<"Kaiko", "Market", <<"Kaiko Large Cap Index">>, "KMLAR", <<"N", "/", "A">>, <<"N", "/", "A">>, "Real-time (5 sec)", <<"January", "23", "2025">>, <<"April", "1", "2014">>, <<"-">>, <<"-">>, factsheet_market>>,
    <<"Kaiko", "Market", <<"Kaiko Large Cap Index NYC">>, "KMLARNYC", <<"N", "/", "A">>, <<"N", "/", "A">>, "NYC Fixing", <<"January", "23", "2025">>, <<"April", "1", "2014">>, <<"-">>, <<"-">>, factsheet_market>>,
    <<"Kaiko", "Market", <<"Kaiko Large Cap Index LDN">>, "KMLARLDN", <<"N", "/", "A">>, <<"N", "/", "A">>, "LDN Fixing", <<"January", "23", "2025">>, <<"April", "1", "2014">>, <<"-">>, <<"-">>, factsheet_market>>,
    <<"Kaiko", "Market", <<"Kaiko Large Cap Index SGP">>, "KMLARSGP", <<"N", "/", "A">>, <<"N", "/", "A">>, "SGP Fixing", <<"January", "23", "2025">>, <<"April", "1", "2014">>, <<"-">>, <<"-">>, factsheet_market>>,
    <<"Kaiko", "Market", <<"Kaiko Investable Index">>, "KMINV", <<"N", "/", "A">>, <<"N", "/", "A">>, "Real-time (5 sec)", <<"January", "23", "2025">>, <<"April", "1", "2014">>, <<"-">>, <<"-">>, factsheet_market>>,
    <<"Kaiko", "Market", <<"Kaiko Investable Index NYC">>, "KMINVNYC", <<"N", "/", "A">>, <<"N", "/", "A">>, "NYC Fixing", <<"January", "23", "2025">>, <<"April", "1", "2014">>, <<"-">>, <<"-">>, factsheet_market>>,
    <<"Kaiko", "Market", <<"Kaiko Investable Index LDN">>, "KMINVLDN", <<"N", "/", "A">>, <<"N", "/", "A">>, "LDN Fixing", <<"January", "23", "2025">>, <<"April", "1", "2014">>, <<"-">>, <<"-">>, factsheet_market>>,
    <<"Kaiko", "Market", <<"Kaiko Investable Index SGP">>, "KMINVSGP", <<"N", "/", "A">>, <<"N", "/", "A">>, "SGP Fixing", <<"January", "23", "2025">>, <<"April", "1", "2014">>, <<"-">>, <<"-">>, factsheet_market>>,
    <<"Kaiko", "Market", <<"Vinter 21Shares Crypto Mid-Cap Index ">>, "ALTS", <<"N", "/", "A">>, <<"N", "/", "A">>, "LDN Fixing", <<"December", "14", "2021">>, <<"January", "01", "2021">>, <<"-">>, <<"-">>, <<HREF, "ALTS - Fact Sheet - multi-asset_alts_end=2025-03-12&start=2020-12-31.pdf">>>>,
    <<"Kaiko", "Market", <<"Vinter 21Shares Crypto Staking Index ">>, "STAKE", <<"N", "/", "A">>, <<"N", "/", "A">>, "LDN Fixing", <<"January", "18", "2023">>, <<"January", "01", "2021">>, <<"-">>, <<"-">>, <<HREF, "multi-asset_stake_end=2025-03-12&start=2020-12-31.pdf">>>>,
    <<"Kaiko", "Market", <<"Vinter BOLD Index">>, "VBNGD", <<"N", "/", "A">>, <<"N", "/", "A">>, "LDN Fixing", <<"November", "10", "2023">>, <<"January", "01", "2020">>, <<"-">>, <<"-">>, <<HREF, "VBNGD - Fact Sheet - multi-asset_vbngd_end=2025-03-12&start=2020-12-31.pdf">>>>,
    <<"Kaiko", "Market", <<"Vinter CF Crypto Momentum Index">>, "VCFMOM", <<"N", "/", "A">>, <<"N", "/", "A">>, "LDN Fixing", <<"May", "15", "2023">>, <<"January", "01", "2021">>, <<"-">>, <<"-">>, <<HREF, "VCFMOM - Fact Sheet -multi-asset_vcfmom_end=2025-03-12&start=2020-12-31.pdf">>>>,
    <<"Kaiko", "Market", <<"Vinter Diffuse Digital 30 Index">>, "DDV", <<"N", "/", "A">>, <<"N", "/", "A">>, "LDN Fixing", <<"July", "02", "2022">>, <<"January", "01", "2021">>, <<"-">>, <<"-">>, <<HREF, "DDV - Fact Sheet - multi-asset_ddv_end=2025-03-12&start=2020-12-31.pdf">>>>,
    <<"Kaiko", "Market", <<"Vinter Hashdex Risk Parity Momentum Crypto Index">>, "VHASHMOM", <<"N", "/", "A">>, <<"N", "/", "A">>, "17:00 CET Fixing", <<"September", "05", "2022">>, <<"January", "01", "2021">>, <<"-">>, <<"-">>, <<HREF, "VHASHMOM Kaiko Factsheet.pdf">>>>,
    <<"Kaiko", "Market", <<"Vinter Bytetree BOLD1 Inverse Volatility Index">>, "BOLD1", <<"N", "/", "A">>, <<"N", "/", "A">>, "LDN Fixing", <<"November", "10", "2023">>, <<"January", "01", "2020">>, <<"-">>, <<"-">>, <<"<a target=\"_blank\">Coming Soon</a>">>>>
  >>

----------------------------------------------------------------------------
\* The inputs a run can meet.

\* Timestamps of the instrument source: ISO 8601 with fractional seconds
\* ("frac"), without ("nofrac"), or in neither form ("other").
Timestamp(form, y, m, d) == [form |-> form, y |-> y, m |-> m, d |-> d]

Instrument(ticker, type, quote, base, launch, inception) ==
  [ticker |-> ticker, type |-> type, brand |-> "Kaiko",
   short_name |-> <<base, "_", quote>>, dissemination |-> "Real-time",
   quote |-> [short_name |-> quote], base |-> [short_name |-> base],
   launch_date |-> launch, inception_date |-> inception]

TsFrac == Timestamp("frac", "2023", "10", "17")
TsNoFrac == Timestamp("nofrac", "2018", "03", "19")
TsOther == Timestamp("other", "2023", "10", "17")

Instruments ==
  { Instrument("BTCUSD", "Reference_Rate", <<"u","s","d">>, <<"b","t","c">>, TsFrac, TsNoFrac),
    Instrument("BTCUSDT", "Custom_Rate", <<"u","s","d","t">>, <<"b","t","c">>, TsFrac, TsFrac),
    Instrument("KT5", "Thematic", <<"U","S","D">>, <<"k","t","5">>, TsFrac, TsFrac),
    Instrument("ADAUSD", "Reference_Rate", <<"U","S","D">>, <<"A","D","A">>, TsOther, TsFrac),
    Instrument("SOLUSD", "Reference Rate", <<"U","s","d">>, <<"S","o","l">>, TsNoFrac, TsFrac),
    Instrument("UNIUSD", "Blue_Chip", <<"U","S","D">>, <<"U","N","I">>, TsFrac, TsNoFrac) }

\* Tickers in Python's string order (the order sorted() uses).
TickerOrder ==
  <<"ADAUSD", "BTCUSD", "BTCUSDT", "KT5", "SOLUSD", "UNIUSD">>

TickerRank(t) == CHOOSE i \in 1..Len(TickerOrder) : TickerOrder[i] = t

\* Sequences of at most n elements of S.
SeqsUpTo(S, n) == UNION { [1..k -> S] : k \in 0..n }

\* Answers of the instrument source.
InstrumentResponses ==
  { [status_code |-> 500, data |-> <<>>] } \cup
  { [status_code |-> 200, data |-> d] : d \in SeqsUpTo(Instruments, MaxRecords) }

\* The opaque chunk of a link in a prior CSV cell.
LINK == "example/a.pdf"

PriorRow(ticker, cell) == [Ticker |-> ticker, Factsheet |-> cell]

\* The prior CSV: absent, or with rows for a fixed ticker (KT5)
\* and for an API ticker (BTCUSD); the cells cover blank, "-", trailing commas,
\* surrounding whitespace and repeated opening tags.
PriorCsvs ==
  { [exists |-> FALSE, rows |-> <<>>] } \cup
  { [exists |-> TRUE, rows |-> r] : r \in
      { <<PriorRow("KT5", <<HREF, LINK>>)>>,
        <<PriorRow("KT5", <<COMMA, COMMA>>)>>,
        <<PriorRow("BTCUSD", <<>>)>>,
        <<PriorRow("BTCUSD", <<"-">>)>>,
        <<PriorRow("BTCUSD", <<SPACE, HREF, LINK, COMMA, COMMA, COMMA, SPACE>>)>>,
        <<PriorRow("BTCUSD", <<HREF, HREF, HREF, LINK>>)>>,
        <<PriorRow("KT5", <<HREF, HREF, LINK, COMMA>>), PriorRow("BTCUSD", <<HREF, LINK>>)>> } }

\* Answers of the exchange reference API: a failure, or the exchange list.
ExchangeList ==
  << [code |-> "CBSE", name |-> "Coinbase"],
     [code |-> "krkn", name |-> "Kraken"],
     [code |-> "crco", name |-> "Crypto.com Exchange"] >>

ExchangeResponses ==
  { [raises |-> FALSE, status_code |-> 503, result |-> "error", data |-> <<>>],
    [raises |-> FALSE, status_code |-> 200, result |-> "success", data |-> ExchangeList] }

\* Exchange codes in Python's string order, and their lower-case forms.
ExchangeCodeOrder == <<"CBSE", "cbse", "crco", "krkn">>

ExchangeCodeRank(c) == CHOOSE i \in 1..Len(ExchangeCodeOrder) : ExchangeCodeOrder[i] = c

LowerCode(c) == IF c = "CBSE" THEN "cbse" ELSE c

\* Answers of the per-ticker enrichment endpoint.  time.delta is the
\* publication time minus yesterday 21:00 UTC, in hours.
NoTime == [present |-> FALSE, form |-> "none", delta |-> 0]
Time(form, delta) == [present |-> TRUE, form |-> form, delta |-> delta]
NoParams == [present |-> FALSE, exchanges |-> <<>>, has_calc_window |-> FALSE, calc_window |-> "0"]
Params(exchanges, has_cw, cw) ==
  [present |-> TRUE, exchanges |-> exchanges, has_calc_window |-> has_cw, calc_window |-> cw]
Enrichment(raises, status, time, data) ==
  [requested |-> TRUE, raises |-> raises, status_code |-> status, time |-> time, data |-> data]

NotRequested == [requested |-> FALSE, raises |-> FALSE, status_code |-> 0, time |-> NoTime, data |-> <<>>]

EnrichmentResponses ==
  { Enrichment(FALSE, 500, NoTime, <<>>),
    Enrichment(TRUE, 0, NoTime, <<>>),
    Enrichment(FALSE, 200, Time("frac", -1), <<[parameters |-> Params(<<"krkn", "cbse">>, TRUE, "30")]>>),
    Enrichment(FALSE, 200, Time("frac", -1), <<>>),
    Enrichment(FALSE, 200, Time("frac", 1), <<[parameters |-> Params(<<"krkn", "cbse">>, TRUE, "30")]>>),
    Enrichment(FALSE, 200, Time("frac", 0), <<[parameters |-> Params(<<"krkn">>, FALSE, "0")]>>),
    Enrichment(FALSE, 200, Time("nofrac", -1), <<>>) }

----------------------------------------------------------------------------
\* The functions of the script.

\* datetime.strptime(date_string, fmt): fmt1 is '%Y-%m-%dT%H:%M:%S.%fZ',
\* fmt2 is '%Y-%m-%dT%H:%M:%SZ'; a mismatch raises ValueError.
Strptime(date_string, fmt) ==
  IF (fmt = "fmt1" /\ date_string.form = "frac") \/ (fmt = "fmt2" /\ date_string.form = "nofrac")
  THEN [ok |-> TRUE, y |-> date_string.y, m |-> date_string.m, d |-> date_string.d]
  ELSE [ok |-> FALSE]

\* strftime('%B %d, %Y')
Strftime(dt) ==
  LET MonthName == [m \in {"01","02","03","04","05","06","07","08","09","10","11","12"} |->
        CASE m = "01" -> "January" [] m = "02" -> "February" [] m = "03" -> "March"
          [] m = "04" -> "April" [] m = "05" -> "May" [] m = "06" -> "June"
          [] m = "07" -> "July" [] m = "08" -> "August" [] m = "09" -> "September"
          [] m = "10" -> "October" [] m = "11" -> "November" [] m = "12" -> "December"]
  IN <<MonthName[dt.m], dt.d, dt.y>>

\* parse_date: ok with the formatted date, or not ok when ValueError leaves it
parse_date(date_string) ==
  IF Strptime(date_string, "fmt1").ok
  THEN [ok |-> TRUE, value |-> Strftime(Strptime(date_string, "fmt1"))]
  ELSE IF Strptime(date_string, "fmt2").ok
       THEN [ok |-> TRUE, value |-> Strftime(Strptime(date_string, "fmt2"))]
       ELSE [ok |-> FALSE]
\* get_normalized_family that also accepts the space form of a code.
get_normalized_family_SpaceForm(family_type) ==
  IF family_type \in {"Thematic", "Sector"} THEN "Sector & Thematic"
  ELSE IF family_type \in {"Custom_Rate", "Benchmark_Reference_Rate", "Reference_Rate",
                           "Custom Rate", "Benchmark Reference Rate", "Reference Rate"}
       THEN "Single-Asset"
       ELSE family_type

get_normalized_family(family_type) ==
  IF family_type \in {"Thematic", "Sector"} THEN "Sector & Thematic"
  ELSE IF family_type \in {"Custom_Rate", "Benchmark_Reference_Rate", "Reference_Rate"}
       THEN "Single-Asset"
       ELSE family_type

\* The value get_existing_fact_sheets keeps for one cell (empty: not kept).
NormalizeFactsheet(cell) ==
  LET stripped == Strip(cell)
      value == IF EndsWith(stripped, COMMA) THEN DropLast(stripped) ELSE stripped
  IN IF value # <<>> /\ Contains(value, <<HREF, HREF>>)
     THEN Replace(value, <<HREF, HREF>>, <<HREF>>)
     ELSE value

\* The loop over the rows: a row whose value is not empty sets its ticker's
\* entry, so a ticker keeps the value of its last such row.
ReadFactSheets(rows) ==
  LET kept == { k \in 1..Len(rows) : NormalizeFactsheet(rows[k].Factsheet) # <<>> }
      last(t) == LET of_t == { k \in kept : rows[k].Ticker = t }
                 IN CHOOSE k \in of_t : \A j \in of_t : j <= k
  IN [t \in { rows[k].Ticker : k \in kept } |-> NormalizeFactsheet(rows[last(t)].Factsheet)]

get_existing_fact_sheets(csv) ==
  IF csv.exists THEN ReadFactSheets(csv.rows) ELSE EmptyDict

RECURSIVE BuildMappings(_, _)
BuildMappings(exchange_list, mappings) ==
  IF Len(exchange_list) = 0 THEN mappings
  ELSE LET exchange == Head(exchange_list)
           code == LowerCode(exchange.code)
       IN BuildMappings(Tail(exchange_list),
            Put(mappings, code, IF code = "crco" THEN "Crypto.com" ELSE exchange.name))

get_exchange_name_mappings(resp) ==
  IF resp.raises \/ resp.status_code # 200 \/ resp.result # "success"
  THEN EmptyDict
  ELSE BuildMappings(resp.data, EmptyDict)

\* sorted(exchanges_list)
RECURSIVE SortCodes(_)
SortCodes(codes) ==
  IF Len(codes) = 0 THEN <<>>
  ELSE LET m == CHOOSE i \in 1..Len(codes) :
                  /\ \A j \in 1..Len(codes) : ExchangeCodeRank(codes[i]) <= ExchangeCodeRank(codes[j])
                  /\ \A j \in 1..(i - 1) : ExchangeCodeRank(codes[j]) > ExchangeCodeRank(codes[i])
       IN <<codes[m]>> \o SortCodes([k \in 1..(Len(codes) - 1) |-> IF k < m THEN codes[k] ELSE codes[k + 1]])

MapExchange(exchange_code, mappings) ==
  IF LowerCode(exchange_code) \in DOMAIN mappings
  THEN mappings[LowerCode(exchange_code)]
  ELSE exchange_code

EnrichedTypes == {"Reference_Rate", "Benchmark_Reference_Rate", "Single-Asset", "Custom_Rate"}

\* Requests that does not look at the API key.
Requests_IgnoreKey(asset_type, key) == asset_type \in EnrichedTypes

\* Whether fetch_historical_prices_data reaches its HTTP request.
Requests(asset_type, key) == key # "" /\ asset_type \in EnrichedTypes

\* The publication-time check: the response is older than the cutoff.
IsStale(resp) == resp.time.present /\ resp.time.form = "frac" /\ resp.time.delta < 0

\* fetch_historical_prices_data: mappings is the dict in effect inside the
\* call, resp the endpoint's answer (NotRequested when no request is made).
fetch_historical_prices_data(asset_type, key, mappings, resp) ==
  IF ~Requests(asset_type, key) THEN <<DASH, DASH>>
  ELSE IF resp.raises \/ resp.status_code # 200 THEN <<DASH, DASH>>
  ELSE IF IsStale(resp) THEN <<EXCLUDE, EXCLUDE>>
  ELSE IF Len(resp.data) = 0 THEN <<DASH, DASH>>
  ELSE LET params == resp.data[1].parameters
           sorted == SortCodes(params.exchanges)
           mapped_exchanges == [i \in 1..Len(sorted) |-> MapExchange(sorted[i], mappings)]
           exchanges == IF params.present /\ Len(params.exchanges) > 0
                        THEN Join(", ", mapped_exchanges) ELSE DASH
           calc_window == IF params.present /\ params.has_calc_window
                          THEN <<params.calc_window, "s">> ELSE DASH
       IN <<exchanges, calc_window>>

headers ==
  <<"Brand", "Benchmark Family", "Name", "Ticker", "Base", "Quote",
    "Dissemination", "Launch Date", "Inception Date", "Exchanges", "Calculation Window", "Factsheet">>
\* IsUsd that accepts every quote starting with USD.
IsUsd_Prefix(item) == SubSeq(Upper(item.quote.short_name), 1, 3) = <<"U", "S", "D">>

\* The quote filter of the USD pass.
IsUsd(item) == Upper(item.quote.short_name) = <<"U", "S", "D">>

\* The row the per-record loop appends for one record.
ApiRow(item, fact_sheets, key, mappings, resp) ==
  LET fetched == fetch_historical_prices_data(item.type, key, mappings, resp)
      found == Get(fact_sheets, item.ticker, <<>>)
      fact_sheet == IF EndsWith(found, COMMA) THEN DropLast(found) ELSE found
  IN << item.brand, get_normalized_family(item.type),
        Replace(item.short_name, <<"_">>, <<" ">>), item.ticker,
        Upper(item.base.short_name), Upper(item.quote.short_name),
        item.dissemination, parse_date(item.launch_date).value,
        parse_date(item.inception_date).value, fetched[1], fetched[2], fact_sheet >>
\* FixedRow that never looks at the prior CSV.
FixedRow_NoCarry(entry, fact_sheets) == entry

\* The fixed entry with its factsheet taken from the prior CSV when it has one.
FixedRow(entry, fact_sheets) ==
  LET ticker == entry[4]
      found == Get(fact_sheets, ticker, <<>>)
      factsheet == IF ticker \in DOMAIN fact_sheets /\ found # <<>>
                   THEN (IF EndsWith(found, COMMA) THEN DropLast(found) ELSE found)
                   ELSE entry[12]
  IN SubSeq(entry, 1, 11) \o <<factsheet>>

fixed_items_with_fact_sheets(fact_sheets) ==
  [i \in 1..Len(get_fixed_entries) |-> FixedRow(get_fixed_entries[i], fact_sheets)]

\* SortByTicker that leaves the rows in their order of arrival.
SortByTicker_AsReceived(rows) == rows

\* sorted(api_items, key=lambda row: row[3]): stable
RECURSIVE SortByTicker(_)
SortByTicker(rows) ==
  IF Len(rows) = 0 THEN <<>>
  ELSE LET m == CHOOSE i \in 1..Len(rows) :
                  /\ \A j \in 1..Len(rows) : TickerRank(rows[i][4]) <= TickerRank(rows[j][4])
                  /\ \A j \in 1..(i - 1) : TickerRank(rows[j][4]) > TickerRank(rows[i][4])
       IN <<rows[m]>> \o SortByTicker([k \in 1..(Len(rows) - 1) |-> IF k < m THEN rows[k] ELSE rows[k + 1]])
\* all_items without the fixed entries.
all_items_NoFixed(fact_sheets, rows) == SortByTicker(rows)

all_items(fact_sheets, rows) == fixed_items_with_fact_sheets(fact_sheets) \o SortByTicker(rows)
\* NoCoinbase looking at the Calculation Window column.
NoCoinbase_WrongColumn(item) == ~Contains(item[11], <<"Coinbase">>)

\* The Coinbase filter.
NoCoinbase(item) == ~Contains(item[10], <<"Coinbase">>)

CoinbaseFilter(items) == SelectSeq(items, NoCoinbase)

\* The main CSV as csv.DictReader gives it back to a later run: of each row
\* written by csv.writer, get_existing_fact_sheets reads the Ticker and the
\* Factsheet cell.  A cell is a value here, not its text in the file: the
\* writer quotes a cell that holds a comma or a quote and the reader undoes
\* it, commas and surrounding blanks included.
ReadBack(csv) ==
  [exists |-> csv.written,
   rows |-> [j \in 1..Len(csv.rows) |-> PriorRow(csv.rows[j][4], csv.rows[j][12])]]

\* write_filtered_csv: the header and the rows it writes.
filtered_headers == SubSeq(headers, 1, 10) \o <<headers[Len(headers)]>>

\* HasFactsheet that only asks for a value that is not empty.
HasFactsheet_NotEmpty(item) == item[Len(item)] # <<>>

HasFactsheet(item) == item[Len(item)] # <<>> /\ item[Len(item)] # DASH

FilteredRow(item) == SubSeq(item, 1, 10) \o <<item[Len(item)]>>

write_filtered_csv(items) ==
  LET kept == SelectSeq(items, HasFactsheet)
  IN [written |-> TRUE, header |-> filtered_headers,
      rows |-> [i \in 1..Len(kept) |-> FilteredRow(kept[i])]]

NotWritten == [written |-> FALSE, header |-> <<>>, rows |-> <<>>]

----------------------------------------------------------------------------
\* The run.

Init ==
  /\ pc = "start"
  /\ priorCsv \in PriorCsvs
  /\ api_key \in {"", "key"}
  /\ existing_fact_sheets = EmptyDict
  /\ exchange_mappings = EmptyDict
  /\ response = [status_code |-> 0, data |-> <<>>]
  /\ usd_items = <<>>
  /\ idx = 1
  /\ api_items = <<>>
  /\ enrichment = <<>>
  /\ mainCsv = NotWritten
  /\ factCsv = NotWritten
  /\ recorded = EmptyDict

\* existing_fact_sheets = get_existing_fact_sheets()
ReadPrior ==
  /\ pc = "start"
  /\ existing_fact_sheets' = get_existing_fact_sheets(priorCsv)
  /\ pc' = "mappings"
  /\ UNCHANGED <<priorCsv, api_key, exchange_mappings, response, usd_items, idx,
                 api_items, enrichment, mainCsv, factCsv, recorded>>

\* exchange_mappings = get_exchange_name_mappings()
LoadMappings ==
  /\ pc = "mappings"
  /\ \E resp \in ExchangeResponses : exchange_mappings' = get_exchange_name_mappings(resp)
  /\ pc' = "request"
  /\ UNCHANGED <<priorCsv, api_key, existing_fact_sheets, response, usd_items, idx,
                 api_items, enrichment, mainCsv, factCsv, recorded>>

\* response = requests.get(api_url); on 200 the USD pass, otherwise the run
\* ends with the error message
RequestInstruments ==
  /\ pc = "request"
  /\ \E resp \in InstrumentResponses :
       /\ response' = resp
       /\ IF resp.status_code = 200
          THEN /\ usd_items' = SelectSeq(resp.data, IsUsd)
               /\ pc' = "loop"
          ELSE /\ usd_items' = usd_items
               /\ pc' = "done"
  /\ UNCHANGED <<priorCsv, api_key, existing_fact_sheets, exchange_mappings, idx,
                 api_items, enrichment, mainCsv, factCsv, recorded>>
\* LoopDone that lets the run leave the loop after its first record.
LoopDone_AfterFirst == idx > Len(usd_items) \/ idx > 1

\* The per-record loop has gone through every USD record.
LoopDone == idx > Len(usd_items)

\* One iteration of "for item in usd_items", ended by ValueError of parse_date
RaiseValueError ==
  /\ pc = "loop"
  /\ ~LoopDone
  /\ ~parse_date(usd_items[idx].launch_date).ok \/ ~parse_date(usd_items[idx].inception_date).ok
  /\ pc' = "crashed"
  /\ UNCHANGED <<priorCsv, api_key, existing_fact_sheets, exchange_mappings, response,
                 usd_items, idx, api_items, enrichment, mainCsv, factCsv, recorded>>

\* One iteration of "for item in usd_items" that appends its row.  Inside
\* fetch_historical_prices_data an empty exchange_mappings is fetched again.
ProcessItem ==
  /\ pc = "loop"
  /\ ~LoopDone
  /\ parse_date(usd_items[idx].launch_date).ok
  /\ parse_date(usd_items[idx].inception_date).ok
  /\ LET item == usd_items[idx] IN
       \E again \in ExchangeResponses :
       \E resp \in (IF Requests(item.type, api_key) THEN EnrichmentResponses ELSE {NotRequested}) :
          LET mappings == IF exchange_mappings = EmptyDict
                          THEN get_exchange_name_mappings(again)
                          ELSE exchange_mappings
          IN /\ api_items' = Append(api_items,
                   ApiRow(item, existing_fact_sheets, api_key, mappings, resp))
             /\ enrichment' = Append(enrichment, resp)
  /\ idx' = idx + 1
  /\ UNCHANGED <<pc, priorCsv, api_key, existing_fact_sheets, exchange_mappings, response,
                 usd_items, mainCsv, factCsv, recorded>>

\* After the loop: overlay the fixed entries, sort, filter Coinbase and write
\* Reference_Rates_Coverage.csv.
WriteMain ==
  /\ pc = "loop"
  /\ LoopDone
  /\ mainCsv' = [written |-> TRUE, header |-> headers,
                 rows |-> CoinbaseFilter(all_items(existing_fact_sheets, api_items))]
  /\ pc' = "write_filtered"
  /\ UNCHANGED <<priorCsv, api_key, existing_fact_sheets, exchange_mappings, response,
                 usd_items, idx, api_items, enrichment, factCsv, recorded>>

\* write_filtered_csv(filtered_items, headers): filtered_items is the list just
\* written to the main CSV
WriteFiltered ==
  /\ pc = "write_filtered"
  /\ factCsv' = write_filtered_csv(mainCsv.rows)
  /\ pc' = "done"
  /\ UNCHANGED <<priorCsv, api_key, existing_fact_sheets, exchange_mappings, response,
                 usd_items, idx, api_items, enrichment, mainCsv, recorded>>

Next ==
  \/ ReadPrior
  \/ LoadMappings
  \/ RequestInstruments
  \/ RaiseValueError
  \/ ProcessItem
  \/ WriteMain
  \/ WriteFiltered

Spec == Init /\ [][Next]_vars

TypeOK ==
  /\ pc \in {"start", "mappings", "request", "loop", "write_filtered", "done", "crashed"}
  /\ idx \in 1..(MaxRecords + 1)
  /\ Len(api_items) = idx - 1

----------------------------------------------------------------------------
\* Successive runs in one working directory.  The script is run again and
\* again (the scheduled job); each run is one step, taken from the entry
\* point to its last write, and finds Reference_Rates_Coverage.csv as the
\* last run that wrote it left it.

\* The instrument source's answers over the runs: a failure, no record, the
\* USD record BTCUSD, the USD record UNIUSD, BTCUSD quoted in another
\* currency, and a record whose date does not parse.
RunInstrument(ticker) == CHOOSE item \in Instruments : item.ticker = ticker

RunResponses ==
  { [status_code |-> 500, data |-> <<>>] } \cup
  { [status_code |-> 200, data |-> d] : d \in
      { <<>>,
        <<RunInstrument("BTCUSD")>>,
        <<RunInstrument("UNIUSD")>>,
        <<Instrument("BTCUSD", "Reference_Rate", <<"E","U","R">>, <<"B","T","C">>, TsFrac, TsNoFrac)>>,
        <<RunInstrument("ADAUSD")>> } }

\* The first prior CSV: none, or one that holds a link for BTCUSD.
RunPriorCsvs ==
  { [exists |-> FALSE, rows |-> <<>>],
    [exists |-> TRUE, rows |-> <<PriorRow("BTCUSD", <<HREF, LINK>>)>>] }

\* History of the runs (no value of the script): the links written so far
\* for API tickers, a ticker's entry being set by the first run that writes
\* a link for it.
Record(links, rows) ==
  LET linked == { j \in (Len(get_fixed_entries) + 1)..Len(rows) : rows[j][12] # <<>> }
      first(t) == CHOOSE j \in linked : rows[j][4] = t /\ \A k \in linked : rows[k][4] = t => j <= k
  IN [t \in (DOMAIN links) \cup { rows[j][4] : j \in linked } |->
        IF t \in DOMAIN links THEN links[t] ELSE rows[first(t)][12]]

InitRuns ==
  /\ pc = "start"
  /\ priorCsv \in RunPriorCsvs
  /\ api_key \in {"", "key"}
  /\ existing_fact_sheets = EmptyDict
  /\ exchange_mappings = EmptyDict
  /\ response = [status_code |-> 0, data |-> <<>>]
  /\ usd_items = <<>>
  /\ idx = 1
  /\ api_items = <<>>
  /\ enrichment = <<>>
  /\ mainCsv = NotWritten
  /\ factCsv = NotWritten
  /\ recorded = EmptyDict

\* One execution of the script, from __main__ to the end of
\* pull_and_save_data_to_csv: the steps of ReadPrior, LoadMappings,
\* RequestInstruments, the per-record loop, WriteMain and WriteFiltered taken
\* together.  A run that ends on a non-200 answer or on ValueError leaves
\* the files as they were.
RunScript ==
  /\ pc \in {"start", "done", "crashed"}
  /\ priorCsv' = IF mainCsv.written THEN ReadBack(mainCsv) ELSE priorCsv
  /\ existing_fact_sheets' = get_existing_fact_sheets(priorCsv')
  /\ \E mapresp \in ExchangeResponses :
       exchange_mappings' = get_exchange_name_mappings(mapresp)
  /\ \E resp \in RunResponses :
       /\ response' = resp
       /\ usd_items' = IF resp.status_code = 200 THEN SelectSeq(resp.data, IsUsd) ELSE <<>>
  /\ LET bad == { i \in 1..Len(usd_items') :
                    \/ ~parse_date(usd_items'[i].launch_date).ok
                    \/ ~parse_date(usd_items'[i].inception_date).ok }
         n == IF bad = {} THEN Len(usd_items')
              ELSE (CHOOSE i \in bad : \A k \in bad : i <= k) - 1
     IN /\ idx' = n + 1
        /\ \E agains \in [1..n -> ExchangeResponses],
              resps \in [1..n -> EnrichmentResponses \cup {NotRequested}] :
             /\ \A i \in 1..n :
                  resps[i] \in (IF Requests(usd_items'[i].type, api_key)
                                THEN EnrichmentResponses ELSE {NotRequested})
             /\ enrichment' = resps
             /\ api_items' = [i \in 1..n |->
                                ApiRow(usd_items'[i], existing_fact_sheets', api_key,
                                       IF exchange_mappings' = EmptyDict
                                       THEN get_exchange_name_mappings(agains[i])
                                       ELSE exchange_mappings',
                                       resps[i])]
        /\ IF response'.status_code = 200 /\ bad = {}
           THEN /\ mainCsv' = [written |-> TRUE, header |-> headers,
                               rows |-> CoinbaseFilter(all_items(existing_fact_sheets', api_items'))]
                /\ factCsv' = write_filtered_csv(mainCsv'.rows)
                /\ recorded' = Record(recorded, mainCsv'.rows)
                /\ pc' = "done"
           ELSE /\ UNCHANGED <<mainCsv, factCsv, recorded>>
                /\ pc' = IF bad = {} THEN "done" ELSE "crashed"
  /\ UNCHANGED api_key

NextRuns == RunScript

SpecRuns == InitRuns /\ [][NextRuns]_vars

----------------------------------------------------------------------------
\* Properties of the run.

NFixed == Len(get_fixed_entries)
Coinbase == <<"Coinbase">>
USD == <<"U", "S", "D">>

\* The main CSV of this run has been written.
Written == mainCsv.written

\* Positions of the main CSV's rows that carry ticker t.
RowsOf(t) == { j \in 1..Len(mainCsv.rows) : mainCsv.rows[j][4] = t }

\* The enrichment endpoint answered record i with a publication time.
Answered(i) ==
  /\ enrichment[i].requested /\ ~enrichment[i].raises /\ enrichment[i].status_code = 200
  /\ enrichment[i].time.present /\ enrichment[i].time.form = "frac"

\* C1: a record whose enrichment response reports a publication time strictly
\* before the cutoff has no row in the main CSV; a record whose publication
\* time is at or after the cutoff is not dropped by the staleness check.
C1_StaleRecordsDropped ==
  Written =>
    \A i \in 1..Len(enrichment) :
      Answered(i) =>
        /\ enrichment[i].time.delta < 0 => RowsOf(usd_items[i].ticker) = {}
        /\ enrichment[i].time.delta >= 0 => api_items[i][10] # EXCLUDE

\* C2: a ticker of the fixed catalog has exactly one row in the main CSV, the
\* catalog's, whatever the API response holds for that ticker.
C2_CatalogTickerOnce ==
  Written =>
    \A i \in 1..NFixed : Cardinality(RowsOf(get_fixed_entries[i][4])) = 1

\* C3: a record whose launch_date or inception_date parses under neither
\* form is dropped alone: it never ends the run.
C3_BadDateDoesNotEndRun == pc # "crashed"

\* C4: no output file is written before the per-record work of every API
\* record is complete; a run ended by a non-200 instrument response or by an
\* exception in the per-record loop has written neither file.
C4_NoWriteBeforeAllRecords ==
  /\ (mainCsv.written \/ factCsv.written) =>
        /\ response.status_code = 200
        /\ Len(api_items) = Len(usd_items)
        /\ Len(usd_items) = Cardinality({ k \in 1..Len(response.data) : IsUsd(response.data[k]) })
        /\ pc \in {"write_filtered", "done"}
  /\ (pc = "crashed" \/ (pc = "done" /\ response.status_code # 200)) =>
        ~mainCsv.written /\ ~factCsv.written
  /\ factCsv.written => mainCsv.written

\* A run that was ended by ValueError after it had built a row.
C4_Witness == pc = "crashed" /\ Len(api_items) >= 1 /\ ~mainCsv.written /\ ~factCsv.written

PriorHasLink(t) ==
  \E k \in 1..Len(priorCsv.rows) :
    /\ priorCsv.rows[k].Ticker = t
    /\ LET cell == Strip(priorCsv.rows[k].Factsheet)
       IN cell # <<>> /\ cell # <<COMMA>>

C6_CatalogAlwaysPresent ==
  Written =>
    /\ Len(mainCsv.rows) >= NFixed
    /\ \A i \in 1..NFixed :
         SubSeq(mainCsv.rows[i], 1, 11) = SubSeq(get_fixed_entries[i], 1, 11)

\* A written run in which the quote filter removed a record and the Coinbase
\* filter removed a row, the fixed entries all being there.
C6_Witness ==
  /\ Written
  /\ Len(usd_items) < Len(response.data)
  /\ Len(mainCsv.rows) < NFixed + Len(api_items)
  /\ Len(mainCsv.rows) >= NFixed

\* C7: no written row has Coinbase in its Exchanges value, in either file,
\* and every candidate row without Coinbase is in the main CSV.
C7_CoinbaseRowsExcluded ==
  /\ Written =>
       /\ \A j \in 1..Len(mainCsv.rows) : ~Contains(mainCsv.rows[j][10], Coinbase)
       /\ \A i \in 1..Len(api_items) :
            ~Contains(api_items[i][10], Coinbase) =>
               \E j \in 1..Len(mainCsv.rows) : mainCsv.rows[j] = api_items[i]
       /\ \A i \in 1..NFixed :
            ~Contains(get_fixed_entries[i][10], Coinbase) =>
               i <= Len(mainCsv.rows) /\ mainCsv.rows[i][4] = get_fixed_entries[i][4]
       /\ Len(mainCsv.rows) =
            NFixed + Cardinality({ i \in 1..Len(api_items) : ~Contains(api_items[i][10], Coinbase) })
  /\ factCsv.written =>
       \A j \in 1..Len(factCsv.rows) : ~Contains(factCsv.rows[j][10], Coinbase)

\* A finished run that dropped a Coinbase row and kept a Kraken row.
C7_Witness ==
  /\ pc = "done" /\ factCsv.written
  /\ \E i \in 1..Len(api_items) : api_items[i][10] = <<"Coinbase", ", ", "Kraken">>
  /\ \E i \in 1..Len(api_items) :
       /\ api_items[i][10] = <<"Kraken">>
       /\ \E j \in 1..Len(mainCsv.rows) : mainCsv.rows[j] = api_items[i]

\* The quote code is USD in some mix of upper and lower case.
QuoteIsUsd(q) ==
  Len(q) = 3 /\ q[1] \in {"u", "U"} /\ q[2] \in {"s", "S"} /\ q[3] \in {"d", "D"}

LowerCaseLetters ==
  {"a","b","c","d","e","f","g","h","i","j","k","l","m",
   "n","o","p","q","r","s","t","u","v","w","x","y","z"}

\* C8: a record yields a row only if its quote code, upper-cased, is exactly
\* USD; every API-derived row has Quote USD and an upper-case Base.
C8_OnlyUsdRows ==
  /\ \A i \in 1..Len(api_items) :
       /\ api_items[i][6] = USD
       /\ \A k \in 1..Len(api_items[i][5]) : api_items[i][5][k] \notin LowerCaseLetters
       /\ \E k \in 1..Len(response.data) :
            /\ response.data[k].ticker = api_items[i][4]
            /\ QuoteIsUsd(response.data[k].quote.short_name)
  /\ Len(api_items) <=
       Cardinality({ k \in 1..Len(response.data) : QuoteIsUsd(response.data[k].quote.short_name) })
  /\ Written =>
       \A j \in (NFixed + 1)..Len(mainCsv.rows) :
          /\ mainCsv.rows[j][6] = USD
          /\ \A k \in 1..Len(mainCsv.rows[j][5]) : mainCsv.rows[j][5][k] \notin LowerCaseLetters

\* A written run whose response held a USDT record and a lower-case usd
\* record; the latter's row is in the main CSV with Base BTC.
C8_Witness ==
  /\ Written
  /\ \E k \in 1..Len(response.data) : response.data[k].quote.short_name = <<"u","s","d","t">>
  /\ \E k \in 1..Len(response.data) : response.data[k].quote.short_name = <<"u","s","d">>
  /\ \E j \in (NFixed + 1)..Len(mainCsv.rows) :
       mainCsv.rows[j][4] = "BTCUSD" /\ mainCsv.rows[j][5] = <<"B","T","C">>

\* The family the specification's table gives a raw type code: matching is
\* insensitive to case and to underscore or space; other codes are shown
\* with underscores replaced by spaces.
TableFamily(code) ==
  CASE code \in {"Thematic", "thematic", "Sector", "sector"} -> "Sector & Thematic"
    [] code \in {"Reference_Rate", "Reference Rate", "reference_rate",
                 "Benchmark_Reference_Rate", "Benchmark Reference Rate",
                 "Custom_Rate", "Custom Rate"} -> "Single-Asset"
    [] code = "Blue_Chip" -> "Blue Chip"
    [] OTHER -> code

\* C9 as stated: the family of every API row is the table's family of the
\* record's raw type code.
C9_FamilyFollowsTable ==
  \A i \in 1..Len(api_items) : api_items[i][2] = TableFamily(usd_items[i].type)

\* C9 amended: the raw type code is matched exactly, case-sensitively and in
\* underscore form only; every other code is returned unchanged.
C9_FamilyExactMatch ==
  \A i \in 1..Len(api_items) :
    LET code == usd_items[i].type
        family == api_items[i][2]
    IN /\ code \in {"Thematic", "Sector"} => family = "Sector & Thematic"
       /\ code \in {"Reference_Rate", "Benchmark_Reference_Rate", "Custom_Rate"}
            => family = "Single-Asset"
       /\ code \notin {"Thematic", "Sector", "Reference_Rate", "Benchmark_Reference_Rate",
                       "Custom_Rate"} => family = code

\* Rows for a code of the table, for its space form and for an unknown code.
C9_Witness ==
  /\ \E i \in 1..Len(api_items) :
       usd_items[i].type = "Reference_Rate" /\ api_items[i][2] = "Single-Asset"
  /\ \E i \in 1..Len(api_items) :
       usd_items[i].type \in {"Reference Rate", "Blue_Chip"} /\ api_items[i][2] = usd_items[i].type

\* C10: no factsheet value kept by get_existing_fact_sheets holds the
\* doubled opening tag.
C10_NoDoubledHref ==
  \A t \in DOMAIN existing_fact_sheets :
    ~Contains(existing_fact_sheets[t], <<HREF, HREF>>)

\* The links a second run reads when the file this run wrote is its prior CSV.
RerunFactSheets == get_existing_fact_sheets(ReadBack(mainCsv))

\* C11: carry-forward is idempotent.  A second run over the first run's
\* output and the same records gives every written row, fixed or API-derived,
\* the link the first run gave it.
C11_CarryForwardIdempotent ==
  Written =>
    /\ \A i \in 1..NFixed :
         FixedRow(get_fixed_entries[i], RerunFactSheets)[12] = mainCsv.rows[i][12]
    /\ \A i \in 1..Len(api_items) :
         NoCoinbase(api_items[i]) =>
           ApiRow(usd_items[i], RerunFactSheets, api_key, exchange_mappings,
                  enrichment[i])[12] = api_items[i][12]

\* The base identity of a ticker: the ticker less a location suffix.  Every
\* suffixed ticker a run can write has its base among the tickers written.
LocationSuffixes == {"NYC", "LDN", "SGP"}

BaseIdentity(t) ==
  LET bases == { mainCsv.rows[j][4] : j \in 1..Len(mainCsv.rows) }
      isBaseOf(b) == \E s \in LocationSuffixes : t = b \o s
  IN IF \E b \in bases : isBaseOf(b) THEN CHOOSE b \in bases : isBaseOf(b) ELSE t

\* C12: the main CSV holds at most one row per base identity: the location
\* variants of an instrument (KT5, KT5NYC, KT5LDN) are one row.
C12_OneRowPerBaseIdentity ==
  Written =>
    \A j, k \in 1..Len(mainCsv.rows) :
      BaseIdentity(mainCsv.rows[j][4]) = BaseIdentity(mainCsv.rows[k][4]) => j = k

\* The same enrichment response on the other side of the cutoff.
OtherSide(resp) == [resp EXCEPT !.time.delta = IF @ < 0 THEN 1 ELSE -1]

\* The Coinbase filter's decision for a record and an enrichment response,
\* everything else being as in this run.
Blocked(item, resp) ==
  ~NoCoinbase(ApiRow(item, existing_fact_sheets, api_key, exchange_mappings, resp))

\* C13: the filters do not interact.  For a record whose enrichment response
\* carries a publication time and an exchange list, the Coinbase filter
\* decides the same way in this run and in the run that differs only in the
\* response being on the other side of the staleness cutoff.
C13_BlocklistIgnoresStaleness ==
  \A i \in 1..Len(enrichment) :
    (exchange_mappings # EmptyDict /\ Answered(i) /\ Len(enrichment[i].data) > 0) =>
       (~NoCoinbase(api_items[i])) = Blocked(usd_items[i], OtherSide(enrichment[i]))

\* The enrichment of record i was degraded: no API key, or the call raised,
\* answered non-200, or answered 200 with no data.
KeyAbsent == api_key = ""
CallFailed(i) ==
  enrichment[i].requested /\ (enrichment[i].raises \/ enrichment[i].status_code # 200)
NoData(i) ==
  /\ enrichment[i].requested /\ ~enrichment[i].raises
  /\ enrichment[i].status_code = 200 /\ Len(enrichment[i].data) = 0

\* Record i has the placeholder in both columns, the run went on after it,
\* and a run that has written holds its row.
PlaceholderRow(i) ==
  /\ api_items[i][10] = DASH /\ api_items[i][11] = DASH
  /\ pc = "crashed" => idx > i
  /\ Written => \E j \in (NFixed + 1)..Len(mainCsv.rows) : mainCsv.rows[j] = api_items[i]

\* What ends a run is a date, never an enrichment; a run that gets through
\* its records writes both files.
EnrichmentNeverEndsRun ==
  /\ Len(api_items) = idx - 1 /\ Len(enrichment) = idx - 1
  /\ pc = "crashed" =>
       \/ ~parse_date(usd_items[idx].launch_date).ok
       \/ ~parse_date(usd_items[idx].inception_date).ok
  /\ (pc = "done" /\ response.status_code = 200) => mainCsv.written /\ factCsv.written

ApiPart == SubSeq(mainCsv.rows, NFixed + 1, Len(mainCsv.rows))

\* C15: the main CSV lists the fixed entries first, in their literal order,
\* then the API-derived rows in non-decreasing ticker order; when the records
\* have pairwise distinct tickers, every order of arrival of the same records
\* gives the same API-derived rows.
C15_OrderDeterministic ==
  Written =>
    /\ \A i \in 1..NFixed : mainCsv.rows[i][4] = get_fixed_entries[i][4]
    /\ \A j, k \in 1..Len(ApiPart) :
         j < k => TickerRank(ApiPart[j][4]) <= TickerRank(ApiPart[k][4])
    /\ (\A a, b \in 1..Len(api_items) : api_items[a][4] = api_items[b][4] => a = b) =>
         \A p \in Permutations(1..Len(api_items)) :
            CoinbaseFilter(SortByTicker([i \in 1..Len(api_items) |-> api_items[p[i]]])) = ApiPart

\* A written run whose records arrived in descending ticker order and are
\* written in ascending order.
C15_Witness ==
  /\ Written
  /\ Len(api_items) >= 2
  /\ TickerRank(api_items[1][4]) > TickerRank(api_items[2][4])
  /\ Len(ApiPart) >= 2
  /\ ApiPart[1] = api_items[2] /\ ApiPart[2] = api_items[1]

\* The columns the factsheet file is said to have.
TenColumns ==
  <<"Brand", "Benchmark Family", "Name", "Ticker", "Base", "Quote",
    "Dissemination", "Launch Date", "Inception Date", "Factsheet">>

\* C16: the factsheet file has neither the Exchanges nor the Calculation
\* Window column: its header is the ten remaining names and every row has
\* as many values as the header.
C16_FactsheetFileColumns ==
  factCsv.written =>
    /\ factCsv.header = TenColumns
    /\ \A j \in 1..Len(factCsv.rows) : Len(factCsv.rows[j]) = Len(TenColumns)

\* The positions, in order, of the main CSV's rows that have a factsheet:
\* a value that is neither empty nor '-'.
WithFactsheet ==
  SelectSeq([j \in 1..Len(mainCsv.rows) |-> j],
            LAMBDA j : mainCsv.rows[j][12] # <<>> /\ mainCsv.rows[j][12] # <<"-">>)

\* C17: the factsheet file holds exactly the rows of the main CSV whose
\* Factsheet is neither empty nor '-', in the main CSV's order: its i-th row
\* is the i-th such row, less the Calculation Window column.
C17_FactsheetFileRows ==
  factCsv.written =>
    \A kept \in {WithFactsheet} :
      /\ Len(factCsv.rows) = Len(kept)
      /\ \A i \in 1..Len(factCsv.rows) :
           LET row == factCsv.rows[i]
               source == mainCsv.rows[kept[i]]
           IN /\ SubSeq(row, 1, 10) = SubSeq(source, 1, 10)
              /\ row[Len(row)] = source[12]
              /\ row[Len(row)] # <<>> /\ row[Len(row)] # <<"-">>

\* A finished run whose main CSV has a row with an empty factsheet, a row
\* with '-' and rows with a link; the factsheet file has only the latter.
C17_Witness ==
  /\ pc = "done" /\ factCsv.written
  /\ \E j \in 1..Len(mainCsv.rows) : mainCsv.rows[j][12] = <<>>
  /\ \E j \in 1..Len(mainCsv.rows) : mainCsv.rows[j][12] = <<"-">>
  /\ Len(factCsv.rows) = Len(mainCsv.rows) - 2
  /\ Len(factCsv.rows) >= NFixed

\* The enrichment response of record i is fresh and lists the Coinbase
\* exchange code.
FreshWithCoinbaseCode(i) ==
  /\ Answered(i) /\ enrichment[i].time.delta >= 0
  /\ Len(enrichment[i].data) > 0
  /\ LET params == enrichment[i].data[1].parameters
     IN params.present /\ \E k \in 1..Len(params.exchanges) : LowerCode(params.exchanges[k]) = "cbse"

\* C19: a fresh record whose exchange list includes the Coinbase code has no
\* row in the main CSV, whether the exchange-name lookup succeeded or not.
C19_CoinbaseExcludedWithoutMapping ==
  Written =>
    \A i \in 1..Len(enrichment) :
      FreshWithCoinbaseCode(i) =>
        ~\E j \in (NFixed + 1)..Len(mainCsv.rows) : mainCsv.rows[j] = api_items[i]

\* C18: over successive runs, each reading the main CSV the run before it
\* wrote, an API ticker for which a link was once written has that link in
\* every later main CSV that holds the ticker, also when a run in between
\* wrote no row for it.
C18_LinkKeptAcrossRuns ==
  mainCsv.written =>
    \A j \in (NFixed + 1)..Len(mainCsv.rows) :
      mainCsv.rows[j][4] \in DOMAIN recorded =>
        mainCsv.rows[j][12] = recorded[mainCsv.rows[j][4]]
====
